---- MODULE Spec2Model ----
(***************************************************************************)
(* Workspace size calculator (src/src/workspaceSize.ts).                   *)
(*                                                                         *)
(* Spec      : WorkspaceSizeCalculator.calculate over an abstract file     *)
(*             system that offers readDirectory and stat, with a           *)
(*             cancellation token that may be cancelled at any moment.     *)
(*                                                                         *)
(* SpecIndicator : WorkspaceSizeIndicator: file events, the debounce       *)
(*             timer, forced and unforced refreshes, the completion of     *)
(*             scans and dispose.  A scan is the calculate call of one     *)
(*             refresh; it completes at a moment of its own.               *)
(*                                                                         *)
(* JavaScript runs one continuation at a time: the code between two awaits *)
(* is one atomic step.  Every action below is one such step: the call of   *)
(* calculate, the completion of one readDirectory, the completion of one   *)
(* stat, or a cancel() issued by the owner of the token.                   *)
(***************************************************************************)
EXTENDS Integers, Sequences, FiniteSets, TLC

\* ---------------------------------------------------------------- bounds

\* Locations longer than this are never listed (a link cycle is cut here).
MaxDepth == 3

\* options.statConcurrency ranges over undefined and 0..MaxConcurrency.
MaxConcurrency == 2

\* The indicator starts at most this many scans.
MaxScans == 3

\* formatBytes is called on mantissa * 1024^exponent with the mantissa in
\* -MaxMantissa..MaxMantissa and the exponent in 0..MaxExponent.
MaxMantissa == 2048
MaxExponent == 5

\* ------------------------------------------------------------- constants

\* vscode.FileType
Unknown == 0
File == 1
Directory == 2
SymbolicLink == 64

DEFAULT_CONCURRENCY == 32

\* the factor between two units of formatBytes
Kilo == 1024

\* type & flag, for a flag that is a power of two
HasFlag(type, flag) == (type \div flag) % 2 = 1

Max(a, b) == IF a >= b THEN a ELSE b
Min(a, b) == IF a <= b THEN a ELSE b

Front(s) == SubSeq(s, 1, Len(s) - 1)
Last(s) == s[Len(s)]

RECURSIVE SumSeq(_)
SumSeq(s) == IF s = <<>> THEN 0 ELSE s[1] + SumSeq(Tail(s))

\* ------------------------------------------------------------- variables

VARIABLES
    fs,               \* the file system the scan runs against (static)
    folders,          \* calculate's first argument: the roots, in order
    statConcurrency,  \* WorkspaceSizeCalculator.statConcurrency
    cancelled,        \* token.isCancellationRequested
    cancelledAtCall,  \* history: the token's state when calculate was called
    callState,        \* the calculate call: "idle", "running", "returned",
                      \* or "failed" (its promise rejected)
    eng,              \* per root: the locals of calculateFolderSize
    settled,          \* the per-root tasks that have fulfilled, in that order
    results,          \* what calculate returned
    \* WorkspaceSizeIndicator
    hasFolders,         \* vscode.workspace.workspaceFolders is not empty
    debounceTimer,      \* a debounce timer is pending
    currentCalculation, \* the scan whose token source it holds, 0 for none
    isCalculating,
    scans,              \* per scan: its token, its progress, its outcome
    lastBreakdown,      \* the scan whose results it holds, 0 for none
    statusBarText,      \* what statusBarItem.text shows
    disposed,
    completions,        \* history: the scans in the order they completed
    lastFileEvent,    \* history: how many scans had started when the last
                      \* file event arrived with a folder open; -1 if none
    \* formatBytes
    fmtInput,         \* the argument `bytes` of a call of formatBytes
    fmtOutput         \* <<>> before the call, <<r>> when it returned r

calcVars == <<fs, folders, statConcurrency, cancelled, cancelledAtCall,
              callState, eng, settled, results>>

indVars == <<hasFolders, debounceTimer, currentCalculation, isCalculating,
             scans, lastBreakdown, statusBarText, disposed, completions,
             lastFileEvent>>

fmtVars == <<fmtInput, fmtOutput>>

vars == <<calcVars, indVars, fmtVars>>

\* ----------------------------------------------------------- file system
\* A location (vscode.Uri) is the sequence of its path segments, the first
\* being the workspace folder; Uri.joinPath appends one segment.
\*
\* Folder "A" is an empty directory, a directory holding the file "a", or a
\* location that cannot be listed.  Folder "B" lists two entries, "f" and
\* "d" (or "f" twice); each has the type tag the listing reports and what a
\* stat finds there: a file, a directory (holding the file "g"), a link to a
\* file, a link back to "B" (a cycle), or nothing.

TypeTags == {Unknown, File, Directory, SymbolicLink,
             SymbolicLink + File, SymbolicLink + Directory}

EntryKinds ==
    { [tag |-> File, st |-> "file"],
      [tag |-> File, st |-> "absent"],
      [tag |-> File, st |-> "dir"],
      [tag |-> Directory, st |-> "dir"],
      [tag |-> Directory, st |-> "absent"],
      [tag |-> Unknown, st |-> "file"],
      [tag |-> Unknown, st |-> "dir"],
      [tag |-> Unknown, st |-> "absent"],
      [tag |-> SymbolicLink, st |-> "absent"],
      [tag |-> SymbolicLink + File, st |-> "linkfile"],
      [tag |-> SymbolicLink + Directory, st |-> "linkdir"] }

AKinds == {"empty", "file", "nolist"}

FileSystems ==
    { f \in [a : AKinds, e1 : EntryKinds, e2 : EntryKinds, same : BOOLEAN] :
        f.same => f.e1.st = f.e2.st }

\* File systems whose provider breaks the contract of readDirectory for
\* folder A: the promise fulfils with a value that cannot be iterated (not
\* a list of entries), so the `for ... of` of line 60 throws a TypeError.
BrokenFileSystems ==
    { f \in [a : {"broken"}, e1 : EntryKinds, e2 : EntryKinds, same : BOOLEAN] :
        f.same => f.e1.st = f.e2.st }

Name2 == IF fs.same THEN "f" ELSE "d"

Size(name) ==
    CASE name = "f" -> 500
      [] name = "d" -> 42
      [] name = "g" -> 300
      [] name = "a" -> 7
      [] OTHER -> 0

\* What is found at location q, whose parent is free of links.
RawKind(q) ==
    CASE q = <<"A">> -> IF fs.a = "nolist" THEN "absent" ELSE "dir"
      [] q = <<"A", "a">> -> IF fs.a = "file" THEN "file" ELSE "absent"
      [] q = <<"B">> -> "dir"
      [] q = <<"B", "f">> -> fs.e1.st
      [] q = <<"B", "d">> -> IF fs.same THEN "absent" ELSE fs.e2.st
      [] q = <<"B", "f", "g">> -> IF fs.e1.st = "dir" THEN "file" ELSE "absent"
      [] q = <<"B", "d", "g">> ->
            IF ~fs.same /\ fs.e2.st = "dir" THEN "file" ELSE "absent"
      [] OTHER -> "absent"

\* The location with its links to directories resolved.
RECURSIVE Canon(_)
Canon(loc) ==
    IF Len(loc) <= 1 THEN loc
    ELSE LET q == Append(Canon(Front(loc)), Last(loc))
         IN IF RawKind(q) = "linkdir" THEN <<"B">> ELSE q

\* The location with the links of its parent resolved.
Hop(loc) == IF Len(loc) <= 1 THEN loc ELSE Append(Canon(Front(loc)), Last(loc))

Undefined == [ok |-> FALSE, type |-> Unknown, size |-> 0]

\* vscode.workspace.fs.stat: a rejection is caught and becomes undefined.
StatOf(loc) ==
    LET k == RawKind(Hop(loc))
    IN CASE k = "file" -> [ok |-> TRUE, type |-> File, size |-> Size(Last(loc))]
         [] k = "linkfile" ->
              [ok |-> TRUE, type |-> SymbolicLink + File, size |-> Size(Last(loc))]
         [] k = "dir" -> [ok |-> TRUE, type |-> Directory, size |-> 4096]
         [] k = "linkdir" ->
              [ok |-> TRUE, type |-> SymbolicLink + Directory, size |-> 4096]
         [] OTHER -> Undefined

ListFailure == [ok |-> FALSE, iterable |-> TRUE, entries |-> <<>>]

Entries(c) ==
    CASE c = <<"A">> ->
            IF fs.a = "file" THEN <<[name |-> "a", type |-> File]>> ELSE <<>>
      [] c = <<"B">> ->
            <<[name |-> "f", type |-> fs.e1.tag],
              [name |-> Name2, type |-> fs.e2.tag]>>
      [] OTHER -> <<[name |-> "g", type |-> File]>>

\* vscode.workspace.fs.readDirectory: the entries, or a rejection.
ListDir(loc) ==
    IF RawKind(Hop(loc)) \in {"dir", "linkdir"}
    THEN [ok |-> TRUE,
          iterable |-> ~(Canon(loc) = <<"A">> /\ fs.a = "broken"),
          entries |-> Entries(Canon(loc))]
    ELSE ListFailure

\* Uri.joinPath(currentDirectory, name)
JoinPath(dir, name) == Append(dir, name)

\* Uri.toString(): the key of the visited set.  Two locations have the same
\* string exactly when they have the same segments.
DirectoryKey(uri) == uri

\* ------------------------------------------------------ calculateFolderSize

NewEngine(uri) ==
    [ pc |-> "start",
      totalSize |-> 0,
      pendingDirectories |-> <<uri>>,
      visitedDirectories |-> {},
      currentDirectory |-> <<>>,
      requests |-> <<>>,
      index |-> 0,
      outstanding |-> {},
      stats |-> <<>>,
      listed |-> <<>>,     \* history: readDirectory calls issued
      statted |-> <<>>,    \* history: stat calls issued
      pushed |-> <<>>,     \* history: locations pushed onto the frontier
      added |-> <<>>,      \* history: locations whose size was added
      inFlight |-> 0 ]     \* history: operations issued and not completed

\* Mutant: the visited set is never consulted.
NeverVisited(e, dir) == FALSE

\* Whether the popped directory is skipped (lines 45-48).
AlreadyVisited(e, dir) == DirectoryKey(dir) \in e.visitedDirectories

\* Mutant: the while loop does not look at the token.
RECURSIVE RunLoopIgnoresToken(_)
RunLoopIgnoresToken(e) ==
    IF e.pendingDirectories = <<>>
    THEN [e EXCEPT !.pc = "done", !.requests = <<>>, !.index = 0,
                   !.outstanding = {}, !.stats = <<>>,
                   !.currentDirectory = <<>>]
    ELSE LET dir == Last(e.pendingDirectories)
             popped == [e EXCEPT !.pendingDirectories = Front(@)]
         IN IF DirectoryKey(dir) \in e.visitedDirectories
            THEN RunLoopIgnoresToken(popped)
            ELSE [popped EXCEPT
                    !.pc = "listing",
                    !.visitedDirectories = @ \cup {DirectoryKey(dir)},
                    !.currentDirectory = dir,
                    !.requests = <<>>, !.index = 0,
                    !.outstanding = {}, !.stats = <<>>,
                    !.listed = Append(@, dir),
                    !.inFlight = @ + 1]

\* The while loop from its head (line 39) to its next await: it pops
\* directories until one has not been visited and issues its readDirectory,
\* or leaves the loop and returns totalSize.
RECURSIVE RunLoop(_)
RunLoop(e) ==
    IF e.pendingDirectories = <<>> \/ cancelled
    THEN [e EXCEPT !.pc = "done", !.requests = <<>>, !.index = 0,
                   !.outstanding = {}, !.stats = <<>>,
                   !.currentDirectory = <<>>]
    ELSE LET dir == Last(e.pendingDirectories)
             popped == [e EXCEPT !.pendingDirectories = Front(@)]
         IN IF AlreadyVisited(e, dir)
            THEN RunLoop(popped)
            ELSE [popped EXCEPT
                    !.pc = "listing",
                    !.visitedDirectories = @ \cup {DirectoryKey(dir)},
                    !.currentDirectory = dir,
                    !.requests = <<>>, !.index = 0,
                    !.outstanding = {}, !.stats = <<>>,
                    !.listed = Append(@, dir),
                    !.inFlight = @ + 1]

\* The branch an entry of the listing takes (lines 67-101).
EntryClass(type) ==
    IF HasFlag(type, Directory) THEN "push"
    ELSE IF HasFlag(type, File) THEN "file"
    ELSE IF HasFlag(type, SymbolicLink) THEN "skip"
    ELSE "unknown"

\* The for loop over the entries (lines 60-102): the directories it pushes
\* and the stat requests it queues.  The token cannot change inside the
\* loop, so its check at line 61 either stops the loop at once or never.
RECURSIVE Pushes(_, _)
Pushes(dir, entries) ==
    IF entries = <<>> THEN <<>>
    ELSE LET rest == Pushes(dir, Tail(entries))
         IN IF EntryClass(entries[1].type) = "push"
            THEN <<JoinPath(dir, entries[1].name)>> \o rest
            ELSE rest

RECURSIVE Requests(_, _)
Requests(dir, entries) ==
    IF entries = <<>> THEN <<>>
    ELSE LET rest == Requests(dir, Tail(entries))
             c == EntryClass(entries[1].type)
         IN IF c \in {"file", "unknown"}
            THEN <<[uri |-> JoinPath(dir, entries[1].name), kind |-> c]>> \o rest
            ELSE rest

\* The slice of one chunk: requests.slice(index, index + statConcurrency),
\* as 1-based positions.
Slice(e) ==
    (e.index + 1) .. Min(e.index + statConcurrency, Len(e.requests))

\* processStatRequests returns (lines 112, 131, or the end of its for
\* loop): the `await` of line 104 resumes calculateFolderSize in a later
\* microtask, so the test of line 39 reads the token after a yield.
ReturnToLoop(e) == [e EXCEPT !.pc = "resuming"]

\* Mutant: only the first chunk of a batch is issued.
IssueFirstChunkOnly(e) ==
    IF e.index = 0 /\ e.index < Len(e.requests) /\ ~cancelled
    THEN [e EXCEPT
            !.pc = "statting",
            !.outstanding = Slice(e),
            !.stats = [k \in 1..Len(e.requests) |-> Undefined],
            !.statted = @ \o [j \in 1..Cardinality(Slice(e)) |->
                                e.requests[e.index + j].uri],
            !.inFlight = @ + Cardinality(Slice(e))]
    ELSE ReturnToLoop(e)

\* The head of the for loop of processStatRequests (line 115): the next
\* chunk is issued, or the batch is over and processStatRequests returns.
\* slice.map runs every callback up to its await in the same step as the
\* loop's test, so the test of line 119 sees the token that line 115 saw.
IssueChunk(e) ==
    IF e.index < Len(e.requests) /\ ~cancelled
    THEN LET slice == Slice(e)
         IN [e EXCEPT
               !.pc = "statting",
               !.outstanding = slice,
               !.stats = [k \in 1..Len(e.requests) |-> Undefined],
               !.statted = @ \o [j \in 1..Cardinality(slice) |->
                                   e.requests[e.index + j].uri],
               !.inFlight = @ + Cardinality(slice)]
    ELSE ReturnToLoop(e)

\* processStatRequests from its entry (lines 111-113).
ProcessStatRequests(e) ==
    IF Len(e.requests) = 0 \/ cancelled
    THEN ReturnToLoop(e)
    ELSE IssueChunk([e EXCEPT !.index = 0])

\* Mutant: a rejected readDirectory is not caught.
AfterListingNoCatch(e, listing) ==
    IF ~listing.ok \/ ~listing.iterable
    THEN [e EXCEPT !.pc = "failed", !.inFlight = @ - 1]
    ELSE LET entries == IF cancelled THEN <<>> ELSE listing.entries
             pushes == Pushes(e.currentDirectory, entries)
         IN ProcessStatRequests(
                [e EXCEPT
                   !.inFlight = @ - 1,
                   !.pendingDirectories = @ \o pushes,
                   !.pushed = @ \o pushes,
                   !.requests = Requests(e.currentDirectory, entries)])

\* The continuation of `await readDirectory` (lines 54-104).  A rejection
\* is caught and the loop goes on; a value that cannot be iterated makes
\* the for loop of line 60 throw outside the try, and the task rejects.
AfterListing(e, listing) ==
    IF ~listing.ok
    THEN RunLoop([e EXCEPT !.inFlight = @ - 1])
    ELSE IF ~listing.iterable
    THEN [e EXCEPT !.pc = "failed", !.inFlight = @ - 1]
    ELSE LET entries == IF cancelled THEN <<>> ELSE listing.entries
             pushes == Pushes(e.currentDirectory, entries)
         IN ProcessStatRequests(
                [e EXCEPT
                   !.inFlight = @ - 1,
                   !.pendingDirectories = @ \o pushes,
                   !.pushed = @ \o pushes,
                   !.requests = Requests(e.currentDirectory, entries)])

\* Mutant: the handler of an Unknown entry is the handler of a File entry.
OnResultFileOnly(e, request, stat) ==
    IF stat.ok /\ HasFlag(stat.type, File)
    THEN [e EXCEPT !.totalSize = @ + stat.size,
                   !.added = Append(@, request.uri)]
    ELSE e

\* Mutant: the stat of an entry listed as File is trusted to be a file's.
OnResultTrustsListing(e, request, stat) ==
    IF request.kind = "file"
    THEN IF stat.ok
         THEN [e EXCEPT !.totalSize = @ + stat.size,
                        !.added = Append(@, request.uri)]
         ELSE e
    ELSE IF ~stat.ok THEN e
         ELSE IF HasFlag(stat.type, Directory)
              THEN [e EXCEPT !.pendingDirectories = Append(@, request.uri),
                             !.pushed = Append(@, request.uri)]
              ELSE IF HasFlag(stat.type, File)
                   THEN [e EXCEPT !.totalSize = @ + stat.size,
                                  !.added = Append(@, request.uri)]
                   ELSE e

\* request.onResult(stat) (lines 75-79 and 91-100).
OnResult(e, request, stat) ==
    IF request.kind = "file"
    THEN IF stat.ok /\ HasFlag(stat.type, File)
         THEN [e EXCEPT !.totalSize = @ + stat.size,
                        !.added = Append(@, request.uri)]
         ELSE e
    ELSE IF ~stat.ok THEN e
         ELSE IF HasFlag(stat.type, Directory)
              THEN [e EXCEPT !.pendingDirectories = Append(@, request.uri),
                             !.pushed = Append(@, request.uri)]
              ELSE IF HasFlag(stat.type, File)
                   THEN [e EXCEPT !.totalSize = @ + stat.size,
                                  !.added = Append(@, request.uri)]
                   ELSE e

\* The loop that delivers a chunk's results in slice order (lines 134-136).
RECURSIVE ApplyResults(_, _, _)
ApplyResults(e, k, hi) ==
    IF k > hi THEN e
    ELSE ApplyResults(OnResult(e, e.requests[k], e.stats[k]), k + 1, hi)

\* Mutant: the results of the chunk are applied whatever the token says.
AfterChunkIgnoresToken(e) ==
    LET hi == Min(e.index + statConcurrency, Len(e.requests))
        applied == ApplyResults(e, e.index + 1, hi)
    IN IssueChunk([applied EXCEPT !.index = @ + statConcurrency])

\* The continuation of `await Promise.all` (lines 130-137), then the next
\* round of the for loop.
AfterChunk(e) ==
    IF cancelled
    THEN ReturnToLoop(e)
    ELSE LET hi == Min(e.index + statConcurrency, Len(e.requests))
             applied == ApplyResults(e, e.index + 1, hi)
         IN IssueChunk([applied EXCEPT !.index = @ + statConcurrency])

\* Mutant: a rejected stat is not caught.
CompleteStatNoCatch(e, k, outcome) ==
    LET e1 == [e EXCEPT !.outstanding = @ \ {k}, !.stats[k] = outcome,
                        !.inFlight = @ - 1]
    IN IF ~outcome.ok THEN [e1 EXCEPT !.pc = "failed"]
       ELSE IF e1.outstanding = {} THEN AfterChunk(e1) ELSE e1

\* Mutant: the chunk is over as soon as one of its stats has settled.
CompleteStatRace(e, k, outcome) ==
    LET e1 == [e EXCEPT !.outstanding = @ \ {k},
                        !.stats[k] = IF outcome.ok THEN outcome ELSE Undefined,
                        !.inFlight = @ - 1]
    IN AfterChunk(e1)

\* Mutant: a rejected stat leaves its promise, and Promise.all, pending.
CompleteStatHangs(e, k, outcome) ==
    LET e1 == [e EXCEPT !.outstanding = @ \ {k},
                        !.stats[k] = IF outcome.ok THEN outcome ELSE Undefined,
                        !.inFlight = @ - 1]
    IN IF e1.outstanding = {} /\ outcome.ok THEN AfterChunk(e1) ELSE e1

\* Mutant: a chunk is no longer awaited once the token is cancelled.
CompleteStatAbandonsChunk(e, k, outcome) ==
    LET e1 == [e EXCEPT !.outstanding = @ \ {k},
                        !.stats[k] = IF outcome.ok THEN outcome ELSE Undefined,
                        !.inFlight = @ - 1]
    IN IF e1.outstanding = {} \/ cancelled THEN AfterChunk(e1) ELSE e1

\* One stat of the current chunk settles (lines 122-126): a rejection is
\* caught and becomes undefined.  The last one of the chunk fulfils
\* Promise.all.
CompleteStat(e, k, outcome) ==
    LET e1 == [e EXCEPT !.outstanding = @ \ {k},
                        !.stats[k] = IF outcome.ok THEN outcome ELSE Undefined,
                        !.inFlight = @ - 1]
    IN IF e1.outstanding = {} THEN AfterChunk(e1) ELSE e1

\* ---------------------------------------------------------------- calculate

\* A workspace folder: its name and its location.
Folder(name) == [name |-> name, uri |-> <<name>>]

FolderLists == { <<>>, <<"B">>, <<"A", "B">>, <<"B", "A">> }

\* The value of one task of calculate (lines 27-30).
TaskValue(i, e) == [folder |-> Folder(folders[i]), size |-> e.totalSize]

\* Mutant: the values are collected in the order the tasks fulfilled.
CollectInCompletionOrder(done) == [k \in 1..Len(done) |-> done[k].value]

\* Promise.all (line 31): the values of the tasks, by the position of each
\* task in the array, whatever the order they fulfilled in.
PromiseAll(done) ==
    [i \in 1..Len(done) |->
        done[CHOOSE k \in 1..Len(done) : done[k].task = i].value]

\* The tasks of `tasks` that have just fulfilled, by position.
RECURSIVE NewlySettled(_, _)
NewlySettled(newEng, i) ==
    IF i > Len(newEng) THEN <<>>
    ELSE IF newEng[i].pc = "done" /\ (i > Len(eng) \/ eng[i].pc # "done")
         THEN <<[task |-> i, value |-> TaskValue(i, newEng[i])]>>
                 \o NewlySettled(newEng, i + 1)
         ELSE NewlySettled(newEng, i + 1)

\* The engines move to newEng; the tasks that returned fulfil, and when the
\* last one has, calculate returns.  A task that threw rejects Promise.all
\* at once, while the other tasks run on.
Advance(newEng) ==
    \E done \in {settled \o NewlySettled(newEng, 1)} :
    LET rejected == \E i \in 1..Len(newEng) : newEng[i].pc = "failed"
    IN /\ eng' = newEng
       /\ settled' = done
       /\ IF callState = "failed" \/ rejected
          THEN callState' = "failed" /\ results' = results
          ELSE IF Len(done) = Len(folders)
               THEN callState' = "returned" /\ results' = PromiseAll(done)
               ELSE callState' = "running" /\ results' = results

\* new WorkspaceSizeCalculator(options) (lines 22-24)
\* options.statConcurrency: <<>> when it is undefined, <<n>> when it is n.
ConcurrencyOptions == {<<>>} \cup {<<n>> : n \in 0..MaxConcurrency}

Constructor(option) ==
    Max(1, IF option = <<>> THEN DEFAULT_CONCURRENCY ELSE option[1])

\* No call of formatBytes is modelled under Spec and SpecIndicator.
NoFormat ==
    /\ fmtInput = [class |-> "finite", mantissa |-> 0, exponent |-> 0]
    /\ fmtOutput = <<>>

\* The indicator before its construction: Spec runs calculate on its own.
NoIndicator ==
    /\ hasFolders = FALSE
    /\ debounceTimer = FALSE
    /\ currentCalculation = 0
    /\ isCalculating = FALSE
    /\ scans = <<>>
    /\ lastBreakdown = 0
    /\ statusBarText = [kind |-> "Ready", scan |-> 0]
    /\ disposed = FALSE
    /\ completions = <<>>
    /\ lastFileEvent = -1

Init ==
    /\ NoIndicator
    /\ NoFormat
    /\ fs \in FileSystems
    /\ folders \in FolderLists
    /\ ("A" \notin {folders[i] : i \in 1..Len(folders)} => fs.a = "empty")
    /\ \E option \in ConcurrencyOptions : statConcurrency = Constructor(option)
    /\ cancelled \in BOOLEAN
    /\ cancelledAtCall = FALSE
    /\ callState = "idle"
    /\ eng = <<>>
    /\ settled = <<>>
    /\ results = <<>>

\* The calls in which folder A is served by a provider that breaks the
\* contract of readDirectory.
InitFatal ==
    /\ NoIndicator
    /\ NoFormat
    /\ fs \in BrokenFileSystems
    /\ folders \in { f \in FolderLists : "A" \in {f[i] : i \in 1..Len(f)} }
    /\ \E option \in ConcurrencyOptions : statConcurrency = Constructor(option)
    /\ cancelled \in BOOLEAN
    /\ cancelledAtCall = FALSE
    /\ callState = "idle"
    /\ eng = <<>>
    /\ settled = <<>>
    /\ results = <<>>

\* calculate(folders, token): every task runs to its first await.
Calculate ==
    /\ callState = "idle"
    /\ cancelledAtCall' = cancelled
    /\ \E started \in {[i \in 1..Len(folders) |->
                          RunLoop(NewEngine(Folder(folders[i]).uri))]} :
          Advance(started)
    /\ UNCHANGED <<indVars, fmtVars, fs, folders, statConcurrency, cancelled>>

\* One readDirectory completes and its task runs to its next await: that
\* of the next readDirectory when the listing failed, else that of
\* processStatRequests (line 104) or of the first chunk's Promise.all.
ReadDirectoryComplete(i) ==
    /\ callState \in {"running", "failed"}
    /\ eng[i].pc = "listing"
    /\ Len(eng[i].currentDirectory) < MaxDepth
    /\ \E listing \in {ListDir(eng[i].currentDirectory)} :
       \E e \in {AfterListing(eng[i], listing)} :
          Advance([eng EXCEPT ![i] = e])
    /\ UNCHANGED <<indVars, fmtVars, fs, folders, statConcurrency, cancelled,
                   cancelledAtCall>>

\* One stat completes; when it is the last of its chunk, Promise.all
\* fulfils and the task runs to its next await: that of the next chunk, or
\* that of line 104 when processStatRequests returns.
StatComplete(i, k) ==
    /\ callState \in {"running", "failed"}
    /\ eng[i].pc = "statting"
    /\ k \in eng[i].outstanding
    /\ \E stat \in {StatOf(eng[i].requests[k].uri)} :
       \E e \in {CompleteStat(eng[i], k, stat)} :
          Advance([eng EXCEPT ![i] = e])
    /\ UNCHANGED <<indVars, fmtVars, fs, folders, statConcurrency, cancelled,
                   cancelledAtCall>>

\* The await of line 104 resumes: the while loop goes on from its test
\* (line 39) to the next readDirectory, or returns totalSize.
ResumeLoop(i) ==
    /\ callState \in {"running", "failed"}
    /\ eng[i].pc = "resuming"
    /\ \E e \in {RunLoop(eng[i])} :
          Advance([eng EXCEPT ![i] = e])
    /\ UNCHANGED <<indVars, fmtVars, fs, folders, statConcurrency, cancelled,
                   cancelledAtCall>>

\* The owner of the token calls cancel().
Cancel ==
    /\ ~cancelled
    /\ cancelled' = TRUE
    /\ UNCHANGED <<indVars, fmtVars, fs, folders, statConcurrency,
                   cancelledAtCall, callState, eng, settled, results>>

Next ==
    \/ Calculate
    \/ \E i \in 1..Len(eng) : ReadDirectoryComplete(i)
    \/ \E i \in 1..Len(eng) : \E k \in 1..Len(eng[i].requests) : StatComplete(i, k)
    \/ \E i \in 1..Len(eng) : ResumeLoop(i)
    \/ Cancel

Spec == Init /\ [][Next]_vars

SpecFatal == InitFatal /\ [][Next]_vars

\* Some pending readDirectory or stat completes, or a task that yielded
\* at line 104 is resumed by the microtask queue.
OperationCompletes ==
    \/ \E i \in 1..Len(eng) : ReadDirectoryComplete(i)
    \/ \E i \in 1..Len(eng) : \E k \in 1..Len(eng[i].requests) : StatComplete(i, k)
    \/ \E i \in 1..Len(eng) : ResumeLoop(i)

\* No listing of the tree reports a symbolic link.
NoLinkListed ==
    ~HasFlag(fs.e1.tag, SymbolicLink) /\ ~HasFlag(fs.e2.tag, SymbolicLink)

\* The calls of calculate on a tree free of symbolic links.
InitFair == Init /\ NoLinkListed

\* The file system answers and the microtask queue drains: while an
\* operation or a resumption is pending, one of them happens.
\* Nothing obliges the caller to call calculate or to cancel.
SpecFair == InitFair /\ [][Next]_vars /\ WF_vars(OperationCompletes)

\* ------------------------------------------------- WorkspaceSizeIndicator

Text(kind, scan) == [kind |-> kind, scan |-> scan]

\* Whether refresh returns early because a scan is running (line 250).
SkipsRefresh(force) == isCalculating /\ ~force

\* currentCalculation.cancel() (lines 253-256 and 190-194).
CancelCurrent(scs, current) ==
    IF current = 0 THEN scs ELSE [scs EXCEPT ![current].cancelled = TRUE]

\* Mutant: the token is not looked at when the scan completes.
AppliesAlways(scan) == TRUE

\* Whether a completed scan's results are applied (line 268).
AppliesResults(scan) == ~scan.cancelled

\* refresh(force), up to its await of calculate (lines 245-267).
Refresh(force) ==
    IF ~hasFolders
    THEN /\ statusBarText' = Text("No workspace", 0)
         /\ UNCHANGED <<currentCalculation, isCalculating, scans>>
    ELSE IF SkipsRefresh(force)
         THEN UNCHANGED <<currentCalculation, isCalculating, scans,
                          statusBarText>>
         ELSE /\ Len(scans) < MaxScans
              /\ scans' = Append(CancelCurrent(scans, currentCalculation),
                                 [cancelled |-> FALSE, state |-> "running",
                                  applied |-> FALSE])
              /\ currentCalculation' = Len(scans) + 1
              /\ isCalculating' = TRUE
              /\ statusBarText' = Text("Calculating", 0)

\* No calculate call is modelled step by step under SpecIndicator.
NoCalculate ==
    /\ fs = [a |-> "empty", e1 |-> [tag |-> File, st |-> "file"],
             e2 |-> [tag |-> Directory, st |-> "dir"], same |-> FALSE]
    /\ folders = <<>>
    /\ statConcurrency = DEFAULT_CONCURRENCY
    /\ cancelled = FALSE
    /\ cancelledAtCall = FALSE
    /\ callState = "idle"
    /\ eng = <<>>
    /\ settled = <<>>
    /\ results = <<>>

\* scheduleRefresh(delay) (lines 232-243): the pending timer is replaced.
ScheduleRefresh == debounceTimer' = (hasFolders \/ debounceTimer)

\* The constructor (lines 171-183): updateVisibility, scheduleRefresh(0).
InitIndicator ==
    /\ hasFolders \in BOOLEAN
    /\ debounceTimer = hasFolders
    /\ currentCalculation = 0
    /\ isCalculating = FALSE
    /\ scans = <<>>
    /\ lastBreakdown = 0
    /\ statusBarText = IF hasFolders THEN Text("Ready", 0)
                                     ELSE Text("No workspace", 0)
    /\ disposed = FALSE
    /\ completions = <<>>
    /\ lastFileEvent = -1
    /\ NoFormat
    /\ NoCalculate

\* onDidCreateFiles, onDidDeleteFiles, onDidRenameFiles,
\* onDidSaveTextDocument (lines 201-207).
FileEvent ==
    /\ ~disposed
    /\ ScheduleRefresh
    /\ lastFileEvent' = IF hasFolders THEN Len(scans) ELSE lastFileEvent
    /\ UNCHANGED <<calcVars, fmtVars, hasFolders, currentCalculation,
                   isCalculating, scans, lastBreakdown, statusBarText,
                   disposed, completions>>

\* onDidChangeWorkspaceFolders (lines 208-211): updateVisibility, trigger.
\* Folders were added or removed: the last one closed, the first one
\* opened, or some stay open.
WorkspaceFoldersChanged ==
    /\ ~disposed
    /\ hasFolders' \in BOOLEAN
    /\ hasFolders \/ hasFolders'
    /\ debounceTimer' = (hasFolders' \/ debounceTimer)
    /\ statusBarText' = IF hasFolders' THEN statusBarText
                                       ELSE Text("No workspace", 0)
    /\ UNCHANGED <<calcVars, fmtVars, lastFileEvent, currentCalculation,
                   isCalculating, scans, lastBreakdown, disposed,
                   completions>>

\* The debounce timer fires (lines 239-242): refresh().
TimerFires ==
    /\ debounceTimer
    /\ debounceTimer' = FALSE
    /\ Refresh(FALSE)
    /\ UNCHANGED <<calcVars, fmtVars, lastFileEvent, hasFolders,
                   lastBreakdown, disposed, completions>>

\* The command sizecalculator.recalculateWorkspaceSize (line 218):
\* refresh(true).
RecalculateCommand ==
    /\ ~disposed
    /\ Refresh(TRUE)
    /\ UNCHANGED <<calcVars, fmtVars, lastFileEvent, hasFolders,
                   debounceTimer, lastBreakdown, disposed, completions>>

\* The finally block of refresh (lines 280-286).
Finally(id) ==
    /\ currentCalculation' = IF currentCalculation = id THEN 0
                                                        ELSE currentCalculation
    /\ isCalculating' = FALSE

\* calculate returns to the refresh that awaits it (lines 267-273, 280-286).
ScanCompletes(id) ==
    /\ scans[id].state = "running"
    /\ LET apply == AppliesResults(scans[id])
       IN /\ scans' = [scans EXCEPT ![id].state = "completed",
                                     ![id].applied = apply]
          /\ lastBreakdown' = IF apply THEN id ELSE lastBreakdown
          /\ statusBarText' = IF apply THEN Text("Size", id) ELSE statusBarText
    /\ Finally(id)
    /\ completions' = Append(completions, id)
    /\ UNCHANGED <<calcVars, fmtVars, lastFileEvent, hasFolders,
                   debounceTimer, disposed>>

\* calculate rejects (lines 274-286).
ScanFails(id) ==
    /\ scans[id].state = "running"
    /\ scans' = [scans EXCEPT ![id].state = "failed"]
    /\ statusBarText' = Text("Size unavailable", 0)
    /\ Finally(id)
    /\ completions' = Append(completions, id)
    /\ UNCHANGED <<calcVars, fmtVars, lastFileEvent, hasFolders,
                   debounceTimer, lastBreakdown, disposed>>

\* dispose() (lines 185-198).
Dispose ==
    /\ ~disposed
    /\ disposed' = TRUE
    /\ debounceTimer' = FALSE
    /\ scans' = CancelCurrent(scans, currentCalculation)
    /\ currentCalculation' = 0
    /\ UNCHANGED <<calcVars, fmtVars, lastFileEvent, hasFolders,
                   isCalculating, lastBreakdown, statusBarText, completions>>

NextIndicator ==
    \/ FileEvent
    \/ WorkspaceFoldersChanged
    \/ TimerFires
    \/ RecalculateCommand
    \/ \E id \in 1..Len(scans) : ScanCompletes(id)
    \/ \E id \in 1..Len(scans) : ScanFails(id)
    \/ Dispose

SpecIndicator == InitIndicator /\ [][NextIndicator]_vars

\* ------------------------------------------------------------ formatBytes

\* A JavaScript number: NaN, an infinity, or the finite number
\* mantissa * 1024^exponent.  Such a number and all its quotients by 1024
\* are exact doubles, so the arithmetic below is the arithmetic of the code.
Number(class, mantissa, exponent) ==
    [class |-> class, mantissa |-> mantissa, exponent |-> exponent]

FormatInputs ==
    { Number(c, 0, 0) : c \in {"NaN", "Infinity", "-Infinity"} }
       \cup { Number("finite", m, x) :
                 m \in (0 - MaxMantissa)..MaxMantissa, x \in 0..MaxExponent }

units == <<"B", "KB", "MB", "GB", "TB", "PB">>

RECURSIVE Pow1024(_)
Pow1024(n) == IF n = 0 THEN 1 ELSE Kilo * Pow1024(n - 1)

\* Number.isFinite(bytes) and bytes < 0 (line 142)
IsFinite(bytes) == bytes.class = "finite"

IsNegative(bytes) ==
    bytes.class = "-Infinity" \/ (bytes.class = "finite" /\ bytes.mantissa < 0)

\* The local `value` is num * 1024^shift, with shift below zero after
\* enough divisions.  value >= limit, for an integer limit in 1..1024: a
\* value with shift >= 1 is 0 or at least 1024.
AtLeast(v, limit) ==
    IF v.shift >= 1
    THEN v.num >= 1
    ELSE v.num >= limit * Pow1024(0 - v.shift)

\* Mutant: the loop goes on only above 1024.
Above1024(v) ==
    IF v.shift >= 1
    THEN v.num > 1 \/ (v.num = 1 /\ v.shift > 1)
    ELSE v.num > Kilo * Pow1024(0 - v.shift)

\* The loop's test on value (line 150).
AtLeast1024(v) == AtLeast(v, Kilo)

\* value /= 1024 (line 151)
Divide(v) == [v EXCEPT !.shift = @ - 1]

\* The while loop (lines 150-153).
RECURSIVE Scale(_, _)
Scale(v, unitIndex) ==
    IF AtLeast1024(v) /\ unitIndex < Len(units) - 1
    THEN Scale(Divide(v), unitIndex + 1)
    ELSE [value |-> v, unitIndex |-> unitIndex]

\* value.toFixed(digits) for digits 0 or 1: the integer n nearest to
\* value * 10^digits, the larger one on a tie, written with `digits`
\* decimals.
ToFixed(v, digits) ==
    LET scale == IF digits = 0 THEN 1 ELSE 10
        n == IF v.num = 0 THEN 0
             ELSE IF v.shift >= 0
             THEN v.num * Pow1024(v.shift) * scale
             ELSE (2 * scale * v.num + Pow1024(0 - v.shift))
                     \div (2 * Pow1024(0 - v.shift))
    IN [whole |-> n \div scale,
        tenths |-> IF digits = 0 THEN <<>> ELSE <<n % scale>>]

\* `${formatted} ${unit}`: the digits before the point, the digit after it
\* when there is one, and the unit.
Template(formatted, unit) ==
    [whole |-> formatted.whole, tenths |-> formatted.tenths, unit |-> unit]

formatBytes(bytes) ==
    IF ~IsFinite(bytes) \/ IsNegative(bytes)
    THEN Template([whole |-> 0, tenths |-> <<>>], "B")
    ELSE LET s == Scale([num |-> bytes.mantissa, shift |-> bytes.exponent], 0)
             formatted == IF AtLeast(s.value, 100) \/ s.unitIndex = 0
                          THEN ToFixed(s.value, 0)
                          ELSE ToFixed(s.value, 1)
         IN Template(formatted, units[s.unitIndex + 1])

\* A call of formatBytes on any input of the family.
InitFormat ==
    /\ NoIndicator
    /\ NoCalculate
    /\ fmtInput \in FormatInputs
    /\ fmtOutput = <<>>

\* formatBytes(bytes) returns.
FormatBytes ==
    /\ fmtOutput = <<>>
    /\ fmtOutput' = <<formatBytes(fmtInput)>>
    /\ UNCHANGED <<calcVars, indVars, fmtInput>>

NextFormat == FormatBytes

SpecFormat == InitFormat /\ [][NextFormat]_vars

\* ------------------------------------------------------------------ claims

Roots == 1..Len(eng)

Range(seq) == {seq[k] : k \in 1..Len(seq)}

Count(x, seq) == Cardinality({k \in 1..Len(seq) : seq[k] = x})

\* calculate returned and the token was never cancelled.
ReturnedUncancelled == callState = "returned" /\ ~cancelled

\* The entries of directory d that are named name and take branch class.
EntriesOfClass(d, name, class) ==
    LET l == ListDir(d).entries
    IN {k \in 1..Len(l) : l[k].name = name /\ EntryClass(l[k].type) = class}

\* The sum of the stat sizes of the locations whose size was added.
AddedSizes(e) == SumSeq([k \in 1..Len(e.added) |-> StatOf(e.added[k]).size])

\* The listings report only File and Directory entries, every entry is what
\* its listing says, and every listing and stat succeeds.
PlainKinds == { [tag |-> File, st |-> "file"], [tag |-> Directory, st |-> "dir"] }

PlainTree ==
    fs.e1 \in PlainKinds /\ fs.e2 \in PlainKinds /\ ~fs.same /\ fs.a # "nolist"

\* The sum of the sizes of the regular files beneath a location of a plain
\* tree, by recursion on the tree.
RECURSIVE TreeSize(_)
TreeSize(loc) ==
    LET l == ListDir(loc).entries
    IN SumSeq([k \in 1..Len(l) |->
                 IF l[k].type = File
                 THEN StatOf(JoinPath(loc, l[k].name)).size
                 ELSE TreeSize(JoinPath(loc, l[k].name))])

\* C1: on a plain tree (only File and Directory entries, no failure) and
\* without cancellation, calculate returns for each root the sum of the
\* sizes of the files beneath it, in whatever order the stats complete.
C1_ExactSum ==
    (ReturnedUncancelled /\ PlainTree) =>
        \A i \in 1..Len(folders) : results[i].size = TreeSize(<<folders[i]>>)

\* The scenario of the specification: A is empty, B holds f (500) and a
\* directory holding g (300).
C1_Witness ==
    /\ ReturnedUncancelled
    /\ PlainTree
    /\ folders = <<"A", "B">>
    /\ fs.a = "empty"
    /\ fs.e1 = [tag |-> File, st |-> "file"]
    /\ fs.e2 = [tag |-> Directory, st |-> "dir"]
    /\ results = <<[folder |-> Folder("A"), size |-> 0],
                   [folder |-> Folder("B"), size |-> 800]>>

\* A location all of whose entries in its parent's listing carry the
\* SymbolicLink flag.
LinkEntry(loc) ==
    /\ Len(loc) >= 2
    /\ LET l == ListDir(Front(loc)).entries
       IN /\ \E k \in 1..Len(l) : l[k].name = Last(loc)
          /\ \A k \in 1..Len(l) :
                l[k].name = Last(loc) => HasFlag(l[k].type, SymbolicLink)

\* C2: an entry whose type tag carries the SymbolicLink flag, alone or
\* with the File or Directory flag, is never statted, never pushed onto
\* the frontier and never adds to the total.
C2_LinksNeverTouched ==
    \A i \in Roots :
        \A loc \in Range(eng[i].statted) \cup Range(eng[i].pushed)
                     \cup Range(eng[i].added) : ~LinkEntry(loc)

\* The stat operations issued and not yet completed, over all roots.
OutstandingStats ==
    SumSeq([i \in Roots |-> Cardinality(eng[i].outstanding)])

\* C3: at every moment of a calculate call, for any number of roots, at
\* most statConcurrency stat operations are outstanding.
C3_AtMostNOutstanding == OutstandingStats <= statConcurrency

\* C4: when the token is already cancelled at the call, calculate issues
\* no readDirectory and no stat, and returns size 0 for every root.
C4_CancelledBeforeCall ==
    (cancelledAtCall /\ callState # "idle") =>
        /\ callState = "returned"
        /\ Len(results) = Len(folders)
        /\ \A i \in 1..Len(folders) :
              /\ results[i] = [folder |-> Folder(folders[i]), size |-> 0]
              /\ eng[i].listed = <<>>
              /\ eng[i].statted = <<>>

C4_Witness ==
    cancelledAtCall /\ callState = "returned" /\ Len(folders) = 2

\* The scans that are running with a token that is not cancelled.
LiveScans ==
    {id \in 1..Len(scans) : scans[id].state = "running" /\ ~scans[id].cancelled}

\* C5: at most one running scan has a token that is not cancelled, and the
\* results held in lastBreakdown and shown in the status bar are those of
\* a scan whose token was not cancelled when it completed.
C5_OneLiveScan ==
    /\ Cardinality(LiveScans) <= 1
    /\ \A id \in 1..Len(scans) : scans[id].applied => ~scans[id].cancelled
    /\ lastBreakdown # 0 => scans[lastBreakdown].applied
    /\ statusBarText.kind = "Size" => scans[statusBarText.scan].applied

\* A superseded scan completes after the scan that superseded it, and only
\* the later scan's results are held.
C5_Witness ==
    /\ Len(completions) >= 2
    /\ completions[1] > completions[2]
    /\ scans[completions[1]].applied
    /\ scans[completions[2]].cancelled
    /\ scans[completions[2]].state = "completed"
    /\ lastBreakdown = completions[1]

\* C6: when calculate returns, its list has one entry per root and the
\* i-th entry pairs the i-th root with the total of the i-th traversal.
C6_InputOrder ==
    callState = "returned" =>
        /\ Len(results) = Len(folders)
        /\ \A i \in 1..Len(folders) :
              results[i] = [folder |-> Folder(folders[i]),
                            size |-> eng[i].totalSize]

\* The second root's traversal returned before the first root's.
C6_Witness ==
    /\ callState = "returned"
    /\ Len(folders) = 2
    /\ settled[1].task = 2
    /\ results[1].size # results[2].size

\* C7: within one root's scan a location is listed at most once, however
\* often it is pushed, and an entry of its listing adds to the total at
\* most once.
C7_ListedOnce ==
    \A i \in Roots :
        /\ \A loc \in Range(eng[i].listed) : Count(loc, eng[i].listed) = 1
        /\ \A loc \in Range(eng[i].added) :
              Count(loc, eng[i].added) <=
                 Cardinality(EntriesOfClass(Front(loc), Last(loc), "file")
                             \cup EntriesOfClass(Front(loc), Last(loc), "unknown"))

\* A location was pushed twice (by a Directory entry and by an Unknown
\* entry that its stat resolved to a directory) and the scan is over.
C7_Witness ==
    \E i \in Roots :
        /\ eng[i].pc = "done"
        /\ ~cancelled
        /\ \E loc \in Range(eng[i].listed) :
              /\ Count(loc, eng[i].pushed) = 2
              /\ JoinPath(loc, "g") \in Range(eng[i].added)

\* C8: a stat that fails makes its path contribute nothing and calculate
\* does not fail, at any moment; and when calculate returns without
\* cancellation, every File entry of the listed directories was statted
\* and each one whose stat succeeded added its full size.
C8_StatFailureAbsorbed ==
    /\ callState # "failed"
    /\ \A i \in Roots :
          /\ eng[i].pc # "failed"
          /\ eng[i].totalSize = AddedSizes(eng[i])
          /\ \A loc \in Range(eng[i].statted) :
                ~StatOf(loc).ok => loc \notin Range(eng[i].added)
    /\ ReturnedUncancelled =>
          \A i \in Roots :
              /\ \A d \in Range(eng[i].listed) :
                    \A k \in 1..Len(ListDir(d).entries) :
                        LET entry == ListDir(d).entries[k]
                            c == JoinPath(d, entry.name)
                        IN EntryClass(entry.type) = "file" =>
                              /\ c \in Range(eng[i].statted)
                              /\ (StatOf(c).ok /\ HasFlag(StatOf(c).type, File))
                                    => c \in Range(eng[i].added)

\* The stat of f fails in the first chunk; d, in the next chunk, adds its 42.
C8_Witness ==
    /\ ReturnedUncancelled
    /\ folders = <<"B">>
    /\ statConcurrency = 1
    /\ fs.e1 = [tag |-> File, st |-> "absent"]
    /\ fs.e2 = [tag |-> File, st |-> "file"]
    /\ ~fs.same
    /\ eng[1].statted = << <<"B", "f">>, <<"B", "d">> >>
    /\ results[1].size = 42

\* The step of a root whose readDirectory fails: nothing is added, pushed
\* or statted, no error escapes, and the traversal goes on with the next
\* directory of the frontier that was not visited.
ListingFailureStep(i) ==
    (eng[i].pc = "listing" /\ ~ListDir(eng[i].currentDirectory).ok
       /\ eng'[i] # eng[i]) =>
        /\ eng'[i].totalSize = eng[i].totalSize
        /\ eng'[i].pushed = eng[i].pushed
        /\ eng'[i].statted = eng[i].statted
        /\ eng'[i].added = eng[i].added
        /\ callState' # "failed"
        /\ eng'[i].pc \in {"listing", "done"}
        /\ \E n \in 0..Len(eng[i].pendingDirectories) :
              /\ eng'[i].pendingDirectories =
                    SubSeq(eng[i].pendingDirectories, 1, n)
              /\ \A k \in (n + 1)..Len(eng[i].pendingDirectories) :
                    eng[i].pendingDirectories[k] \in eng'[i].visitedDirectories
        /\ eng'[i].pc = "done" =>
              (cancelled \/ eng'[i].pendingDirectories = <<>>)

\* A root that cannot be listed yields size 0.
UnlistableRootIsZero ==
    callState = "returned" =>
        \A i \in 1..Len(folders) :
            ~ListDir(<<folders[i]>>).ok => results[i].size = 0

\* C9: a readDirectory that fails is a directory without entries: the
\* total and the rest of the frontier stay as they are, the remaining
\* directories are still visited and no error reaches the caller; a root
\* that cannot be listed yields size 0.
C9_ListingFailureAbsorbed ==
    /\ []UnlistableRootIsZero
    /\ [][\A i \in Roots : ListingFailureStep(i)]_vars

\* The listing of B/d failed, and B/f was listed after it and counted.
C9_Witness ==
    /\ ReturnedUncancelled
    /\ folders = <<"B">>
    /\ ~ListDir(<<"B", "d">>).ok
    /\ eng[1].listed = << <<"B">>, <<"B", "d">>, <<"B", "f">> >>
    /\ results[1].size = 300

\* The stats, pushes and additions that the entries named like entry k of
\* directory d may cause, against those that root i has made.
UnknownAtMostOnce(i, d, k) ==
    LET entry == ListDir(d).entries[k]
        c == JoinPath(d, entry.name)
        st == StatOf(c)
        nPush == Cardinality(EntriesOfClass(d, entry.name, "push"))
        nFile == Cardinality(EntriesOfClass(d, entry.name, "file"))
        nUnknown == Cardinality(EntriesOfClass(d, entry.name, "unknown"))
    IN entry.type = Unknown =>
         /\ Count(c, eng[i].statted) <= nFile + nUnknown
         /\ Count(c, eng[i].pushed) <= nPush + nUnknown
         /\ Count(c, eng[i].added) <= nFile + nUnknown
         /\ ~st.ok => /\ c \notin Range(eng[i].added)
                      /\ Count(c, eng[i].pushed) <= nPush
         /\ (st.ok /\ ~HasFlag(st.type, Directory)) =>
                Count(c, eng[i].pushed) <= nPush

\* C10: an entry listed as Unknown is statted once and never more; a file
\* adds its size once, a directory is pushed, listed and its files
\* counted before calculate returns, and a failed stat adds nothing.
C10_UnknownResolved ==
    /\ \A i \in Roots :
          /\ eng[i].totalSize = AddedSizes(eng[i])
          /\ \A d \in Range(eng[i].listed) :
                \A k \in 1..Len(ListDir(d).entries) : UnknownAtMostOnce(i, d, k)
    /\ ReturnedUncancelled =>
        \A i \in Roots :
          \A d \in Range(eng[i].listed) :
              \A k \in 1..Len(ListDir(d).entries) :
                LET entry == ListDir(d).entries[k]
                    c == JoinPath(d, entry.name)
                    st == StatOf(c)
                    nPush == Cardinality(EntriesOfClass(d, entry.name, "push"))
                    nFile == Cardinality(EntriesOfClass(d, entry.name, "file"))
                    nUnknown == Cardinality(EntriesOfClass(d, entry.name, "unknown"))
                    isDir == st.ok /\ HasFlag(st.type, Directory)
                    isFile == st.ok /\ HasFlag(st.type, File)
                IN entry.type = Unknown =>
                     /\ Count(c, eng[i].statted) = nFile + nUnknown
                     /\ Count(c, eng[i].pushed) =
                           nPush + (IF isDir THEN nUnknown ELSE 0)
                     /\ Count(c, eng[i].added) =
                           (IF isFile THEN nFile ELSE 0)
                           + (IF isFile /\ ~isDir THEN nUnknown ELSE 0)
                     /\ isDir =>
                           /\ Count(c, eng[i].listed) = 1
                           /\ \A j \in 1..Len(ListDir(c).entries) :
                                 JoinPath(c, ListDir(c).entries[j].name)
                                    \in Range(eng[i].added)

\* f is Unknown and a directory, d is Unknown and a file of size 42.
C10_Witness ==
    /\ ReturnedUncancelled
    /\ folders = <<"B">>
    /\ ~fs.same
    /\ fs.e1 = [tag |-> Unknown, st |-> "dir"]
    /\ fs.e2 = [tag |-> Unknown, st |-> "file"]
    /\ Count(<<"B", "d">>, eng[1].statted) = 1
    /\ <<"B", "f", "g">> \in Range(eng[1].added)
    /\ results[1].size = 342

\* ------------------------------------------------------------------- C11

\* The listings and stats root i has issued so far (empty before the call).
IssuedListings(engines, i) ==
    IF i <= Len(engines) THEN engines[i].listed ELSE <<>>

IssuedStats(engines, i) ==
    IF i <= Len(engines) THEN engines[i].statted ELSE <<>>

\* C11: once the cancellation signal is set, no step of any root issues a
\* readDirectory or a stat: in every step taken from a state in which the
\* signal is set, the history of issued listings and the history of issued
\* stats of every root stay as they are, the step that starts the call
\* included.
C11_NoNewWork ==
    [][cancelled =>
         \A i \in 1..Len(eng') :
            /\ IssuedListings(eng', i) = IssuedListings(eng, i)
            /\ IssuedStats(eng', i) = IssuedStats(eng, i)]_vars

\* The signal was set during the call while a listing or a chunk was
\* pending, the call returned, and a root left directories unlisted.
C11_Witness ==
    /\ callState = "returned"
    /\ cancelled /\ ~cancelledAtCall
    /\ \E i \in Roots :
          /\ eng[i].pc = "done"
          /\ eng[i].pendingDirectories # <<>>
          /\ eng[i].statted # <<>>

\* ------------------------------------------------------------------- C12

\* calculate has settled: its promise fulfilled or rejected.
CalculateSettled == callState \in {"returned", "failed"}

\* C12: calculate is all-or-nothing: whenever it has settled, it has
\* collected the outcome of every per-root traversal (each one has returned
\* or thrown), and when a traversal threw, the call failed and returned no
\* per-root result, not even for the roots that had completed.
C12_AllOrNothing ==
    CalculateSettled =>
       /\ \A i \in Roots : eng[i].pc \in {"done", "failed"}
       /\ (\E i \in Roots : eng[i].pc = "failed") =>
             callState = "failed" /\ results = <<>>

\* ------------------------------------------------------------------- C13

\* Nothing is left to happen unless a new event, command or dispose
\* arrives: a folder is open, no timer is pending, no scan is running.
\* Scans that rejected are left out (every operation completes).
Quiescent ==
    /\ ~disposed
    /\ hasFolders
    /\ ~debounceTimer
    /\ \A id \in 1..Len(scans) : scans[id].state = "completed"

\* C13: the indicator refreshes after every file event: when a file event
\* has arrived while a folder was open and nothing is left to happen, a
\* scan that started after the last such event has completed and had its
\* results applied, also when the event arrived while a scan was running.
C13_RefreshesAfterEvent ==
    (Quiescent /\ lastFileEvent >= 0) =>
        \E id \in (lastFileEvent + 1)..Len(scans) : scans[id].applied

\* ------------------------------------------------------------------- C14

\* The call of formatBytes on mantissa * 1024^exponent returned `text`.
Formats(mantissa, exponent, text) ==
    (fmtInput = Number("finite", mantissa, exponent) /\ fmtOutput # <<>>)
        => fmtOutput[1] = text

\* An integer followed by a unit, as in "1023 B".
Whole(n, unit) == [whole |-> n, tenths |-> <<>>, unit |-> unit]

\* One decimal, as in "1.5 KB".
Decimal(n, tenth, unit) == [whole |-> n, tenths |-> <<tenth>>, unit |-> unit]

\* C14: formatBytes(0) is "0 B", formatBytes(1023) is "1023 B",
\* formatBytes(1024) is "1 KB", formatBytes(1536) is "1.5 KB",
\* formatBytes(1048576) is "1 MB", and every negative or non-finite input
\* yields "0 B".
C14_FormatExamples ==
    /\ Formats(0, 0, Whole(0, "B"))
    /\ Formats(1023, 0, Whole(1023, "B"))
    /\ Formats(1024, 0, Whole(1, "KB"))
    /\ Formats(1536, 0, Decimal(1, 5, "KB"))
    /\ Formats(1024, 1, Whole(1, "MB"))
    /\ (fmtOutput # <<>> /\ (~IsFinite(fmtInput) \/ IsNegative(fmtInput)))
          => fmtOutput[1] = Whole(0, "B")

\* C14, amended: formatBytes(0) is "0 B", formatBytes(1023) is "1023 B",
\* formatBytes(1024) is "1.0 KB", formatBytes(1536) is "1.5 KB",
\* formatBytes(1048576) is "1.0 MB" (a value below 100 in a unit above
\* bytes always has one decimal), and every negative or non-finite input
\* yields "0 B".
C14_FormatExamplesAmended ==
    /\ Formats(0, 0, Whole(0, "B"))
    /\ Formats(1023, 0, Whole(1023, "B"))
    /\ Formats(1024, 0, Decimal(1, 0, "KB"))
    /\ Formats(1536, 0, Decimal(1, 5, "KB"))
    /\ Formats(1024, 1, Decimal(1, 0, "MB"))
    /\ (fmtOutput # <<>> /\ (~IsFinite(fmtInput) \/ IsNegative(fmtInput)))
          => fmtOutput[1] = Whole(0, "B")

\* formatBytes(1024) returned "1.0 KB".
C14_Witness ==
    /\ fmtInput = Number("finite", 1024, 0)
    /\ fmtOutput = <<Decimal(1, 0, "KB")>>

\* ------------------------------------------------------------------- C15

\* C15: once the cancellation signal is set, no stat result is delivered:
\* in every step taken from a state in which the signal is set, no root's
\* running total changes, nothing is added to a total and no directory is
\* pushed onto a frontier, also when the step completes stats that were
\* issued before the signal was set.
C15_NoDeliveryAfterCancel ==
    [][cancelled =>
         \A i \in 1..Len(eng) :
            /\ eng'[i].totalSize = eng[i].totalSize
            /\ eng'[i].added = eng[i].added
            /\ eng'[i].pushed = eng[i].pushed
            /\ Len(eng'[i].pendingDirectories) <= Len(eng[i].pendingDirectories)]_vars

\* A stat that was issued before the signal was set and succeeded on a
\* file after it: the root returned without its size.
C15_Witness ==
    /\ cancelled /\ ~cancelledAtCall
    /\ \E i \in Roots :
          /\ eng[i].pc = "done"
          /\ \E k \in 1..Len(eng[i].statted) :
                LET stat == StatOf(eng[i].statted[k])
                IN /\ stat.ok
                   /\ HasFlag(stat.type, File)
                   /\ eng[i].statted[k] \notin Range(eng[i].added)

\* ------------------------------------------------------------------- C16

\* C16: no work is leaked: when a per-root traversal has returned its
\* total, normally or after cancellation, none of the listings and stats
\* it issued is still outstanding.
C16_NoWorkLeaked ==
    \A i \in Roots :
       eng[i].pc = "done" => eng[i].inFlight = 0 /\ eng[i].outstanding = {}

\* The signal was set while the two stats of one chunk were pending; the
\* root returned after both had completed, and neither was applied.
C16_Witness ==
    /\ cancelled /\ ~cancelledAtCall
    /\ statConcurrency >= 2
    /\ \E i \in Roots :
          /\ eng[i].pc = "done"
          /\ Len(eng[i].statted) = 2
          /\ eng[i].added = <<>>
          /\ eng[i].inFlight = 0
          /\ \A k \in 1..2 : StatOf(eng[i].statted[k]).ok

\* ------------------------------------------------------------------- C17

\* The result of the request at position j of the current batch has been
\* delivered: what its onResult does with the stat has been done.
Delivered(e, j) ==
    LET request == e.requests[j]
        stat == StatOf(request.uri)
    IN /\ (stat.ok /\ HasFlag(stat.type, File)
              /\ (request.kind = "file" \/ ~HasFlag(stat.type, Directory)))
          => request.uri \in Range(e.added)
       /\ (stat.ok /\ HasFlag(stat.type, Directory) /\ request.kind = "unknown")
          => request.uri \in Range(e.pushed)

\* C17: within one batch the chunks of at most statConcurrency requests
\* are processed one after another: while stats of a root are pending,
\* they all belong to the current chunk, they are the root's only pending
\* operations, and the results of every earlier chunk of the batch have
\* been applied; while a listing of a root is pending, no stat of that root
\* is pending.
C17_ChunksInSequence ==
    \A i \in Roots :
       /\ eng[i].pc = "statting" =>
             /\ eng[i].outstanding \subseteq Slice(eng[i])
             /\ Cardinality(Slice(eng[i])) <= statConcurrency
             /\ eng[i].inFlight = Cardinality(eng[i].outstanding)
             /\ \A j \in 1..eng[i].index : Delivered(eng[i], j)
       /\ eng[i].pc = "listing" =>
             eng[i].inFlight = 1 /\ eng[i].outstanding = {}

\* Chunks of one request: the second chunk of a batch is pending and the
\* size of the first chunk's file has been added.
C17_Witness ==
    /\ statConcurrency = 1
    /\ \E i \in Roots :
          /\ eng[i].pc = "statting"
          /\ eng[i].index = 1
          /\ eng[i].outstanding = {2}
          /\ eng[i].requests[1].uri \in Range(eng[i].added)

\* ------------------------------------------------------------------- C18

\* Location loc lies strictly beneath location c.
Beneath(loc, c) == Len(loc) > Len(c) /\ SubSeq(loc, 1, Len(c)) = c

\* Entry k of directory d, listed as File, against what root i has done
\* with it so far.
FileEntryNeverMiscounted(i, d, k) ==
    LET entry == ListDir(d).entries[k]
        c == JoinPath(d, entry.name)
        st == StatOf(c)
        alone == /\ EntriesOfClass(d, entry.name, "push") = {}
                 /\ EntriesOfClass(d, entry.name, "unknown") = {}
    IN entry.type = File =>
         /\ ~(st.ok /\ HasFlag(st.type, File)) => c \notin Range(eng[i].added)
         /\ alone =>
              /\ c \notin Range(eng[i].pushed)
              /\ c \notin Range(eng[i].listed)
              /\ \A loc \in Range(eng[i].added) \cup Range(eng[i].statted) :
                    ~Beneath(loc, c)

\* C18: an entry the listing reports as File adds its stat size if and
\* only if its stat succeeds and the stat's type is still File.  When the
\* stat reports a directory (or fails), the entry adds nothing, and its
\* location is never pushed onto the frontier or listed, so nothing beneath
\* it is statted or counted.  When calculate returns uncancelled, the size
\* has been added once for every File entry whose stat is a file's.
C18_FileEntryRechecked ==
    /\ \A i \in Roots :
          \A d \in Range(eng[i].listed) :
             \A k \in 1..Len(ListDir(d).entries) :
                FileEntryNeverMiscounted(i, d, k)
    /\ ReturnedUncancelled =>
         \A i \in Roots :
            \A d \in Range(eng[i].listed) :
               \A k \in 1..Len(ListDir(d).entries) :
                  LET entry == ListDir(d).entries[k]
                      c == JoinPath(d, entry.name)
                      st == StatOf(c)
                      nFile == Cardinality(EntriesOfClass(d, entry.name, "file"))
                      nUnknown == Cardinality(EntriesOfClass(d, entry.name, "unknown"))
                      isDir == st.ok /\ HasFlag(st.type, Directory)
                      isFile == st.ok /\ HasFlag(st.type, File)
                  IN entry.type = File =>
                       Count(c, eng[i].added) =
                          (IF isFile THEN nFile ELSE 0)
                          + (IF isFile /\ ~isDir THEN nUnknown ELSE 0)

\* f is listed as File but its stat reports a directory holding a file g
\* of size 300; d is listed as File and is a file of size 42.  The root's
\* total is 42.
C18_Witness ==
    /\ ReturnedUncancelled
    /\ folders = <<"B">>
    /\ ~fs.same
    /\ fs.e1 = [tag |-> File, st |-> "dir"]
    /\ fs.e2 = [tag |-> File, st |-> "file"]
    /\ StatOf(<<"B", "f", "g">>).ok
    /\ <<"B", "f">> \in Range(eng[1].statted)
    /\ eng[1].added = << <<"B", "d">> >>
    /\ results[1].size = 42

\* ------------------------------------------------------------------- C19

\* C19: a non-forced refresh neither starts a scan nor cancels one while a
\* scan whose token is not cancelled is in flight: isCalculating is true
\* in every state in which such a live scan is running, so the test of
\* line 250 turns the non-forced refresh away.
C19_FlagCoversLiveScan == LiveScans # {} => isCalculating

\* ------------------------------------------------------------------- C20

\* C20: on a tree whose listings contain no symbolic link, if pending
\* listings and stats keep completing, a calculate call that is running
\* eventually returns, every per-root traversal having returned, whether
\* or not the token is cancelled along the way.
C20_Terminates ==
    (callState = "running" /\ NoLinkListed)
        ~> (callState = "returned" /\ \A i \in Roots : eng[i].pc = "done")

\* Two roots on a tree without links: the call returned uncancelled after
\* a root listed a subdirectory and statted what it found.
C20_Witness ==
    /\ callState = "returned"
    /\ NoLinkListed
    /\ ~cancelled
    /\ Len(folders) = 2
    /\ \E i \in Roots : Len(eng[i].listed) >= 2 /\ Len(eng[i].statted) >= 2

====
